---- MODULE Spec2Model ----
(***************************************************************************)
(* A model of the ev3go/ev3 sources: the sysfs device resolver             *)
(* (ev3dev.deviceIDFor with chomp, AddressOf and DriverFor), the           *)
(* MotorState flag formatter and the RGBA pixel factory of the LCD.        *)
(*                                                                         *)
(* A Go string or []byte is a sequence of one-character strings, so that   *)
(* prefix tests, chomp and integer parsing are computed byte by byte.      *)
(***************************************************************************)
EXTENDS Integers, Sequences, FiniteSets, TLC

VARIABLES
    root,      \* what d.Path() is on disk: "dir", "missing" or "file"
    devices,   \* the subdirectories of the root, in Readdirnames order
    ret,       \* the last deviceIDFor call and what it returned
    attr,      \* one attribute file, read by AddressOf and DriverFor
    got,       \* the last AddressOf / DriverFor / chomp call on attr
    flags,     \* a MotorState value
    str,       \* the last MotorState.String call
    img        \* the last NewRGBAWith call

vars == <<root, devices, ret, attr, got, flags, str, img>>

\* ------------------------------------------------------------ bounds

\* the most subdirectories the device-class root holds
MaxDevices == 2

\* the longest attribute file AddressOf and DriverFor are given
MaxLen == 3

\* the bits a MotorState value may have set: one more than the five flags
MaxFlagBits == 6

\* the largest coordinate of a rectangle, stride and pixel buffer length
\* NewRGBAWith is given
MaxCoord == 2
MaxStride == 8
MaxPix == 8

\* ---------------------------------------------------------- byte strings

NL == "\n"

Digits == <<"0", "1", "2", "3", "4", "5", "6", "7", "8", "9">>

IsDigit(c) == \E k \in 1..Len(Digits) : Digits[k] = c

DigitVal(c) == (CHOOSE k \in 1..Len(Digits) : Digits[k] = c) - 1

\* const motorPrefix = "motor", d.Type() of a tacho-motor device
motorPrefix == <<"m", "o", "t", "o", "r">>

\* const address, driverName: the attribute file names
address == "address"
driverName == "driver_name"

\* strings.HasPrefix(s, prefix)
HasPrefix(s, prefix) ==
    /\ Len(s) >= Len(prefix)
    /\ SubSeq(s, 1, Len(prefix)) = prefix

\* strings.TrimPrefix(s, prefix)
TrimPrefix(s, prefix) ==
    IF HasPrefix(s, prefix) THEN SubSeq(s, Len(prefix) + 1, Len(s)) ELSE s

RECURSIVE decimal(_)
\* the value of a sequence of decimal digits
decimal(s) ==
    IF s = <<>> THEN 0
    ELSE 10 * decimal(SubSeq(s, 1, Len(s) - 1)) + DigitVal(s[Len(s)])

\* strconv.Atoi(s): an optional sign and then one or more decimal digits
Atoi(s) ==
    LET signed == s # <<>> /\ s[1] \in {"+", "-"}
        body == IF signed THEN Tail(s) ELSE s
    IN  IF body = <<>> \/ \E k \in 1..Len(body) : ~IsDigit(body[k])
        THEN [err |-> TRUE, val |-> 0]
        ELSE [err |-> FALSE,
              val |-> IF signed /\ s[1] = "-" THEN 0 - decimal(body)
                      ELSE decimal(body)]

\* a chomp mutant that never strips the newline
chompKeepsNewline(b) ==
    IF Len(b) = 0 THEN [panic |-> TRUE, b |-> <<>>]
    ELSE [panic |-> FALSE, b |-> b]

\* chomp(b): b[len(b)-1] is an index out of range, a run-time panic, when b
\* is empty
chomp(b) ==
    IF Len(b) = 0 THEN [panic |-> TRUE, b |-> <<>>]
    ELSE IF b[Len(b)] = NL THEN [panic |-> FALSE, b |-> SubSeq(b, 1, Len(b) - 1)]
    ELSE [panic |-> FALSE, b |-> b]

\* ------------------------------------------------------------ the files

\* a file that does not exist (or cannot be read), and a file holding data
NoFile == [exists |-> FALSE, data |-> <<>>]
File(data) == [exists |-> TRUE, data |-> data]

\* ioutil.ReadFile
ReadFile(f) == [err |-> ~f.exists, data |-> f.data]

outA == <<"o", "u", "t", "A">>
outB == <<"o", "u", "t", "B">>
lMotor == <<"l", "-", "m", "o", "t", "o", "r">>
mMotor == <<"m", "-", "m", "o", "t", "o", "r">>

\* what the kernel, or a test, may leave in an address file: nothing
\* readable, no byte, a newline-terminated port, a port without the newline
Addresses == {NoFile, File(<<>>), File(outA \o <<NL>>), File(outB)}

\* and in a driver_name file
DriverNames == {NoFile, File(<<>>), File(lMotor \o <<NL>>), File(mMotor)}

\* the names a subdirectory of the root may have
Names == {motorPrefix \o <<"0">>, motorPrefix \o <<"3">>,
          motorPrefix \o <<"-", "1">>, motorPrefix \o <<"X">>,
          <<"p", "o", "r", "t", "0">>}

\* the ports and drivers asked for
Ports == {<<>>, outA}
Drivers == {lMotor, mMotor}

\* ---------------------------------------------------------- deviceIDFor

Idle == [op |-> "idle"]

\* return id, err
Return(id, err, reads) ==
    [panic |-> FALSE, id |-> id, err |-> err, reads |-> reads]

\* a run-time panic: the call does not return
Panic(reads) ==
    [panic |-> TRUE, id |-> 0, err |-> [kind |-> "panic"], reads |-> reads]

\* a mutant that reports a failed read with id 0
readFailedZero(kind, reads) == Return(0, [kind |-> kind], reads)

\* return -1, fmt.Errorf("ev3dev: could not read ...")
readFailed(kind, reads) == Return(-1, [kind |-> kind], reads)

\* a mutant with the two not-found messages swapped
notFoundSwapped(port, driver, reads) ==
    IF port = <<>>
    THEN Return(-1, [kind |-> "notFoundOnPort", driver |-> driver, port |-> port], reads)
    ELSE Return(-1, [kind |-> "notFoundDriver", driver |-> driver], reads)

\* the two returns after the loop
notFound(port, driver, reads) ==
    IF port # <<>>
    THEN Return(-1, [kind |-> "notFoundOnPort", driver |-> driver, port |-> port], reads)
    ELSE Return(-1, [kind |-> "notFoundDriver", driver |-> driver], reads)

\* a mutant that does not filter the names by the type prefix
isCandidateAny(device) == TRUE

\* strings.HasPrefix(device, d.Type())
isCandidate(device) == HasPrefix(device, motorPrefix)

\* strconv.Atoi(strings.TrimPrefix(device, d.Type()))
parseID(device) == Atoi(TrimPrefix(device, motorPrefix))

\* DriverMismatch{Want: driver, Have: string(b)}: b is the file as read
mismatch(driver, b) == [kind |-> "DriverMismatch", Want |-> driver, Have |-> b]

RECURSIVE scan(_, _, _, _)
\* the loop over devices, from entry i on; reads lists the files read so far
scan(port, driver, i, reads) ==
    IF i > Len(devices) THEN notFound(port, driver, reads)
    ELSE
    LET device == devices[i].name
        id == parseID(device)
        rd == Append(reads, <<i, driverName>>)
        ra == Append(reads, <<i, address>>)
        rad == Append(ra, <<i, driverName>>)
        bd == ReadFile(devices[i].driver_name)
        ba == ReadFile(devices[i].address)
    IN
    IF ~isCandidate(device) THEN scan(port, driver, i + 1, reads)
    ELSE IF id.err THEN Return(-1, [kind |-> "parse", device |-> device], reads)
    ELSE IF port = <<>> THEN
        IF bd.err THEN readFailed("readDriverName", rd)
        ELSE IF chomp(bd.data).panic THEN Panic(rd)
        ELSE IF driver # chomp(bd.data).b THEN scan(port, driver, i + 1, rd)
        ELSE Return(id.val, [kind |-> "nil"], rd)
    ELSE
        IF ba.err THEN readFailed("readAddress", ra)
        ELSE IF chomp(ba.data).panic THEN Panic(ra)
        ELSE IF port # chomp(ba.data).b THEN scan(port, driver, i + 1, ra)
        ELSE IF bd.err THEN readFailed("readDriverName", rad)
        ELSE IF chomp(bd.data).panic THEN Panic(rad)
        ELSE IF driver # chomp(bd.data).b
             THEN Return(id.val, mismatch(driver, bd.data), rad)
        ELSE Return(id.val, [kind |-> "nil"], rad)

\* deviceIDFor(port, driver, d) on the file system as it is now
deviceIDFor(port, driver) ==
    IF root = "missing" THEN Return(-1, [kind |-> "open"], <<>>)
    ELSE IF root = "file" THEN Return(-1, [kind |-> "readdir"], <<>>)
    ELSE scan(port, driver, 1, <<>>)

\* a mutant that returns the file as read
AddressOfRaw(f) ==
    IF ReadFile(f).err
    THEN [panic |-> FALSE, val |-> <<>>, err |-> "readAddress"]
    ELSE [panic |-> FALSE, val |-> ReadFile(f).data, err |-> "nil"]

\* AddressOf(d), of the device whose address file is f
AddressOf(f) ==
    IF ReadFile(f).err
    THEN [panic |-> FALSE, val |-> <<>>, err |-> "readAddress"]
    ELSE IF chomp(ReadFile(f).data).panic
    THEN [panic |-> TRUE, val |-> <<>>, err |-> "panic"]
    ELSE [panic |-> FALSE, val |-> chomp(ReadFile(f).data).b, err |-> "nil"]

\* DriverFor(d), of the device whose driver_name file is f
DriverFor(f) ==
    IF ReadFile(f).err
    THEN [panic |-> FALSE, val |-> <<>>, err |-> "readDriverName"]
    ELSE IF chomp(ReadFile(f).data).panic
    THEN [panic |-> TRUE, val |-> <<>>, err |-> "panic"]
    ELSE [panic |-> FALSE, val |-> chomp(ReadFile(f).data).b, err |-> "nil"]

\* the bytes an attribute file is made of, and the files of up to MaxLen bytes
AttrBytes == {"o", "A", NL}
AttrFiles == {NoFile} \cup
    {File(b) : b \in UNION {[1..n -> AttrBytes] : n \in 0..MaxLen}}

\* ------------------------------------------------------------ MotorState

running == <<"r", "u", "n", "n", "i", "n", "g">>
ramping == <<"r", "a", "m", "p", "i", "n", "g">>
holding == <<"h", "o", "l", "d", "i", "n", "g">>
overloaded == <<"o", "v", "e", "r", "l", "o", "a", "d", "e", "d">>
stalled == <<"s", "t", "a", "l", "l", "e", "d">>

motorStates == <<running, ramping, holding, overloaded, stalled>>

\* Running MotorState = 1 << iota, and the four after it
Running == 1
Ramping == 2
Holding == 4
Overloaded == 8
Stalled == 16

RECURSIVE pow2(_)
pow2(n) == IF n = 0 THEN 1 ELSE 2 * pow2(n - 1)

\* f&(1<<uint(i)) != 0
hasBit(f, i) == (f \div pow2(i)) % 2 = 1

RECURSIVE stringLoop(_, _, _)
\* the loop of MotorState.String from index i on (i counts from 0 as in Go)
stringLoop(f, i, b) ==
    IF i = Len(motorStates) THEN b
    ELSE IF hasBit(f, i)
    THEN stringLoop(f, i + 1,
                    (IF i # 0 THEN Append(b, "|") ELSE b) \o motorStates[i + 1])
    ELSE stringLoop(f, i + 1, b)

\* MotorState.String
String(f) == stringLoop(f, 0, <<>>)

\* ----------------------------------------------------------- NewRGBAWith

LCDWidth == 178
LCDHeight == 128
LCDStride == 712

\* image.Rectangle, with its Dx and Dy
Rect(x0, y0, x1, y1) == [Min |-> [X |-> x0, Y |-> y0], Max |-> [X |-> x1, Y |-> y1]]
Dx(r) == r.Max.X - r.Min.X
Dy(r) == r.Max.Y - r.Min.Y

\* a mutant that also refuses a buffer of exactly stride*h bytes
NewRGBAWithStrict(pix, r, stride) ==
    LET w == Dx(r)
        h == Dy(r)
        s == IF stride = 0 THEN 4 * w ELSE stride
    IN  IF pix <= s * h
        THEN [nil |-> TRUE, err |-> TRUE, Pix |-> 0, Stride |-> 0, Rect |-> Rect(0, 0, 0, 0)]
        ELSE [nil |-> FALSE, err |-> FALSE, Pix |-> pix, Stride |-> s, Rect |-> r]

\* NewRGBAWith(pix, r, stride); pix is len(pix), all that is used of the buffer
NewRGBAWith(pix, r, stride) ==
    LET w == Dx(r)
        h == Dy(r)
        s == IF stride = 0 THEN 4 * w ELSE stride
    IN  IF pix < s * h
        THEN [nil |-> TRUE, err |-> TRUE, Pix |-> 0, Stride |-> 0, Rect |-> Rect(0, 0, 0, 0)]
        ELSE [nil |-> FALSE, err |-> FALSE, Pix |-> pix, Stride |-> s, Rect |-> r]

\* ------------------------------------------------------------- actions

OthersInit ==
    /\ attr = NoFile
    /\ got = Idle
    /\ flags = 0
    /\ str = Idle
    /\ img = Idle

Init ==
    /\ root = "dir"
    /\ devices = <<>>
    /\ ret = Idle
    /\ OthersInit

others == <<attr, got, flags, str, img>>

\* the root directory is removed, or replaced by a plain file, or made
SetRoot(r) ==
    /\ ret = Idle
    /\ devices = <<>>
    /\ r # root
    /\ root' = r
    /\ UNCHANGED <<devices, ret, others>>

\* a device appears: a new subdirectory, at any place of the listing
Mkdir(name, at) ==
    /\ ret = Idle
    /\ root = "dir"
    /\ Len(devices) < MaxDevices
    /\ \A k \in 1..Len(devices) : devices[k].name # name
    /\ devices' = SubSeq(devices, 1, at - 1)
                    \o <<[name |-> name, address |-> NoFile, driver_name |-> NoFile]>>
                    \o SubSeq(devices, at, Len(devices))
    /\ UNCHANGED <<root, ret, others>>

\* a device goes away
Rmdir(i) ==
    /\ ret = Idle
    /\ devices' = SubSeq(devices, 1, i - 1) \o SubSeq(devices, i + 1, Len(devices))
    /\ UNCHANGED <<root, ret, others>>

\* an address file is written or removed
WriteAddress(i, f) ==
    /\ ret = Idle
    /\ devices[i].address # f
    /\ devices' = [devices EXCEPT ![i].address = f]
    /\ UNCHANGED <<root, ret, others>>

\* a driver_name file is written or removed
WriteDriverName(i, f) ==
    /\ ret = Idle
    /\ devices[i].driver_name # f
    /\ devices' = [devices EXCEPT ![i].driver_name = f]
    /\ UNCHANGED <<root, ret, others>>

\* a call of deviceIDFor
DeviceIDFor(port, driver) ==
    /\ ret = Idle
    /\ ret' = [op |-> "deviceIDFor", port |-> port, driver |-> driver,
               out |-> deviceIDFor(port, driver)]
    /\ UNCHANGED <<root, devices, others>>

\* the caller takes the result
Done ==
    /\ ret # Idle
    /\ ret' = Idle
    /\ UNCHANGED <<root, devices, others>>

Next ==
    \/ \E r \in {"dir", "missing", "file"} : SetRoot(r)
    \/ \E name \in Names, at \in 1..(Len(devices) + 1) : Mkdir(name, at)
    \/ \E i \in 1..Len(devices) : Rmdir(i)
    \/ \E i \in 1..Len(devices), f \in Addresses : WriteAddress(i, f)
    \/ \E i \in 1..Len(devices), f \in DriverNames : WriteDriverName(i, f)
    \/ \E port \in Ports, driver \in Drivers : DeviceIDFor(port, driver)
    \/ Done

Spec == Init /\ [][Next]_vars

\* --------------------------------------------- AddressOf and DriverFor

resolver == <<root, devices, ret>>

InitAttr ==
    /\ root = "dir"
    /\ devices = <<>>
    /\ ret = Idle
    /\ OthersInit

\* the attribute file is written, or removed
WriteAttr(f) ==
    /\ got = Idle
    /\ f # attr
    /\ attr' = f
    /\ UNCHANGED <<resolver, got, flags, str, img>>

CallAddressOf ==
    /\ got = Idle
    /\ got' = [op |-> "AddressOf", out |-> AddressOf(attr)]
    /\ UNCHANGED <<resolver, attr, flags, str, img>>

CallDriverFor ==
    /\ got = Idle
    /\ got' = [op |-> "DriverFor", out |-> DriverFor(attr)]
    /\ UNCHANGED <<resolver, attr, flags, str, img>>

AttrDone ==
    /\ got # Idle
    /\ got' = Idle
    /\ UNCHANGED <<resolver, attr, flags, str, img>>

NextAttr ==
    \/ \E f \in AttrFiles : WriteAttr(f)
    \/ CallAddressOf
    \/ CallDriverFor
    \/ AttrDone

SpecAttr == InitAttr /\ [][NextAttr]_vars

\* ------------------------------------------------------ MotorState.String

\* the motor's state changes
SetState(f) ==
    /\ str = Idle
    /\ f # flags
    /\ flags' = f
    /\ UNCHANGED <<resolver, attr, got, str, img>>

CallString ==
    /\ str = Idle
    /\ str' = [op |-> "String", out |-> String(flags)]
    /\ UNCHANGED <<resolver, attr, got, flags, img>>

StringDone ==
    /\ str # Idle
    /\ str' = Idle
    /\ UNCHANGED <<resolver, attr, got, flags, img>>

NextMotor ==
    \/ \E f \in 0..(pow2(MaxFlagBits) - 1) : SetState(f)
    \/ CallString
    \/ StringDone

InitMotor ==
    /\ root = "dir"
    /\ devices = <<>>
    /\ ret = Idle
    /\ OthersInit

SpecMotor == InitMotor /\ [][NextMotor]_vars

\* ------------------------------------------------------------ NewRGBAWith

Coords == 0..MaxCoord

CallNewRGBAWith(pix, r, stride) ==
    /\ img = Idle
    /\ img' = [op |-> "NewRGBAWith", pix |-> pix, r |-> r, stride |-> stride,
               out |-> NewRGBAWith(pix, r, stride)]
    /\ UNCHANGED <<resolver, attr, got, flags, str>>

\* the frame buffer of the LCD: NewFrameBuffer hands NewRGBAWith the mapped
\* device, the LCD's bounds and the LCD's stride
NewLCD(pix) ==
    CallNewRGBAWith(pix, Rect(0, 0, LCDWidth, LCDHeight), LCDStride)

ImageDone ==
    /\ img # Idle
    /\ img' = Idle
    /\ UNCHANGED <<resolver, attr, got, flags, str>>

NextLCD ==
    \/ /\ img = Idle
       /\ \E pix \in 0..MaxPix, x0 \in Coords, y0 \in Coords, x1 \in Coords,
             y1 \in Coords, stride \in (-1)..MaxStride :
                CallNewRGBAWith(pix, Rect(x0, y0, x1, y1), stride)
    \/ \E pix \in {LCDStride * LCDHeight - 1, LCDStride * LCDHeight} : NewLCD(pix)
    \/ ImageDone

InitLCD ==
    /\ root = "dir"
    /\ devices = <<>>
    /\ ret = Idle
    /\ OthersInit

SpecLCD == InitLCD /\ [][NextLCD]_vars

\* ------------------------------------------------ the resolver's claims

\* the value of an attribute file as the specification defines it: the
\* content with a single trailing newline stripped
AttrValue(f) ==
    IF Len(f.data) > 0 /\ f.data[Len(f.data)] = NL
    THEN SubSeq(f.data, 1, Len(f.data) - 1)
    ELSE f.data

Called == ret.op = "deviceIDFor"
Listed == 1..Len(devices)

\* subdirectory i carries the type prefix; the suffix that follows it
Cand(i) ==
    /\ Len(devices[i].name) >= Len(motorPrefix)
    /\ \A k \in 1..Len(motorPrefix) : devices[i].name[k] = motorPrefix[k]
Suffix(i) == SubSeq(devices[i].name, Len(motorPrefix) + 1, Len(devices[i].name))
HasID(i) == ~Atoi(Suffix(i)).err
ID(i) == Atoi(Suffix(i)).val
NonNegSuffix(i) ==
    /\ Suffix(i) # <<>>
    /\ \A k \in 1..Len(Suffix(i)) : IsDigit(Suffix(i)[k])

\* a file that can be read and is not zero-length
Filled(f) == f.exists /\ f.data # <<>>
AddrIs(i, p) == devices[i].address.exists /\ AttrValue(devices[i].address) = p
DrvIs(i, d) == devices[i].driver_name.exists /\ AttrValue(devices[i].driver_name) = d

\* the one attribute file the scan decides subdirectory i by
KeyFile(i) == IF ret.port = <<>> THEN devices[i].driver_name ELSE devices[i].address
KeyWanted == IF ret.port = <<>> THEN ret.driver ELSE ret.port
KeyRead == IF ret.port = <<>> THEN "readDriverName" ELSE "readAddress"

\* the scan goes past subdirectory i: not a candidate, or a well-formed one
\* whose key file holds another value
Passed(i) ==
    \/ ~Cand(i)
    \/ /\ HasID(i)
       /\ Filled(KeyFile(i))
       /\ AttrValue(KeyFile(i)) # KeyWanted

\* the scan comes to subdirectory i
Reached(i) == \A j \in 1..(i - 1) : Passed(j)

\* the scan stops at candidate i without a match: a malformed name, an
\* unreadable key file, or a zero-length one
Broken(i) == Cand(i) /\ (~HasID(i) \/ ~Filled(KeyFile(i)))

\* what the call does when the first subdirectory it cannot go past is the
\* broken candidate i
FailsAt(i) ==
    IF ~HasID(i)
    THEN ~ret.out.panic /\ ret.out.id = -1 /\ ret.out.err.kind = "parse"
    ELSE IF ~KeyFile(i).exists
    THEN ~ret.out.panic /\ ret.out.id = -1 /\ ret.out.err.kind = KeyRead
    ELSE ret.out.panic

Succeeds(id) ==
    ~ret.out.panic /\ ret.out.id = id /\ ret.out.err.kind = "nil"

\* the only subdirectory on the port asked for, with the driver asked for
OnlyMatch(i) ==
    /\ Cand(i) /\ HasID(i)
    /\ AddrIs(i, ret.port)
    /\ DrvIs(i, ret.driver)
    /\ \A j \in Listed \ {i} : Cand(j) => ~AddrIs(j, ret.port)

\* C1 as stated: when exactly one candidate subdirectory is on the non-empty
\* port asked for and its driver is the one asked for, deviceIDFor returns
\* its id and a nil error, whatever the other subdirectories hold.
C1_ResolvesWhateverElse ==
    (Called /\ ret.port # <<>> /\ root = "dir") =>
        \A i \in Listed : OnlyMatch(i) => Succeeds(ID(i))

\* C1 as amended: in that case deviceIDFor returns the id and a nil error
\* provided every candidate listed before it has an integer suffix and a
\* readable address file that is not zero-length; otherwise the call ends at
\* the first candidate that has not, with the parse error or the read error
\* and id -1, or with the panic of chomp on a zero-length file.
C1_ResolvesPastWellFormed ==
    (Called /\ ret.port # <<>> /\ root = "dir") =>
        \A i \in Listed : OnlyMatch(i) =>
            LET bad == {j \in 1..(i - 1) : Broken(j)}
            IN  IF bad = {} THEN Succeeds(ID(i))
                ELSE FailsAt(CHOOSE j \in bad : \A k \in bad : j <= k)

\* the match is found behind another candidate, which is on another port
C1_Witness ==
    /\ Called /\ ret.port # <<>> /\ root = "dir"
    /\ Len(devices) >= 2
    /\ OnlyMatch(2)
    /\ Cand(1) /\ HasID(1) /\ Filled(devices[1].address)
    /\ Succeeds(ID(2))

\* C2: a candidate on the non-empty port asked for whose driver differs is
\* returned by id with a DriverMismatch whose Want is the driver asked for
\* and whose Have is the device's driver name, the driver_name file's value
\* with its trailing newline stripped.
C2_MismatchHaveIsDriverName ==
    (Called /\ ret.port # <<>> /\ root = "dir") =>
        \A i \in Listed :
            ( /\ Reached(i)
              /\ Cand(i) /\ HasID(i)
              /\ AddrIs(i, ret.port)
              /\ Filled(devices[i].driver_name)
              /\ ~DrvIs(i, ret.driver) ) =>
            /\ ~ret.out.panic
            /\ ret.out.id = ID(i)
            /\ ret.out.err.kind = "DriverMismatch"
            /\ ret.out.err.Want = ret.driver
            /\ ret.out.err.Have = AttrValue(devices[i].driver_name)

\* C3 as stated: when no subdirectory is on the non-empty port asked for,
\* deviceIDFor returns id -1 and the not-found-on-port error.
C3_AbsentPortIsNotFound ==
    (Called /\ ret.port # <<>> /\ root = "dir"
            /\ \A i \in Listed : ~AddrIs(i, ret.port)) =>
        /\ ~ret.out.panic
        /\ ret.out.id = -1
        /\ ret.out.err.kind = "notFoundOnPort"

\* C3 as amended: when no subdirectory is on the non-empty port asked for,
\* deviceIDFor never returns a nil error or a DriverMismatch, and returns
\* id -1 with the not-found-on-port error provided every candidate has an
\* integer suffix and a readable address file that is not zero-length;
\* otherwise the call ends at the first candidate that has not, with the
\* parse error or the read error and id -1, or with the panic of chomp.
C3_AbsentPortWellFormedIsNotFound ==
    (Called /\ ret.port # <<>> /\ root = "dir"
            /\ \A i \in Listed : ~AddrIs(i, ret.port)) =>
        LET bad == {j \in Listed : Broken(j)}
        IN  /\ ret.out.err.kind \notin {"nil", "DriverMismatch"}
            /\ IF bad = {}
               THEN /\ ~ret.out.panic
                    /\ ret.out.id = -1
                    /\ ret.out.err = [kind |-> "notFoundOnPort",
                                      driver |-> ret.driver, port |-> ret.port]
               ELSE FailsAt(CHOOSE j \in bad : \A k \in bad : j <= k)

\* two candidates on another port, with the driver asked for, and not found
C3_Witness ==
    /\ Called /\ ret.port # <<>> /\ root = "dir"
    /\ Len(devices) >= 2
    /\ \A i \in Listed : Cand(i) /\ HasID(i) /\ Filled(devices[i].address)
                            /\ ~AddrIs(i, ret.port) /\ DrvIs(i, ret.driver)
    /\ ret.out.err.kind = "notFoundOnPort"
    /\ ret.out.id = -1

\* the first candidate whose driver is the one asked for
FirstDriver(i) ==
    /\ Cand(i) /\ DrvIs(i, ret.driver)
    /\ \A j \in 1..(i - 1) : ~(Cand(j) /\ DrvIs(j, ret.driver))

NoAddressRead ==
    \A k \in 1..Len(ret.out.reads) : ret.out.reads[k][2] # address

\* C4 as stated: with an empty port deviceIDFor returns, with a nil error,
\* the id of the first candidate in listing order whose driver is the one
\* asked for; no address file is read, a candidate with another driver is
\* skipped, and when no candidate has the driver the result is id -1 and the
\* not-found-for-driver error.
C4_EmptyPortFirstDriver ==
    (Called /\ ret.port = <<>> /\ root = "dir") =>
        /\ NoAddressRead
        /\ ret.out.err.kind # "DriverMismatch"
        /\ \A i \in Listed : FirstDriver(i) => HasID(i) /\ Succeeds(ID(i))
        /\ (\A i \in Listed : ~(Cand(i) /\ DrvIs(i, ret.driver))) =>
                /\ ~ret.out.panic
                /\ ret.out.id = -1
                /\ ret.out.err.kind = "notFoundDriver"

\* C4 as amended: with an empty port no address file is read and no
\* DriverMismatch is returned; deviceIDFor returns, with a nil error, the id
\* of the first candidate whose driver is the one asked for, or id -1 and the
\* not-found-for-driver error when there is none, provided that candidate
\* and every candidate listed before it (every candidate, when there is
\* none) has an integer suffix and a readable driver_name file that is not
\* zero-length; otherwise the call ends at the first candidate that has not,
\* with the parse error or the read error and id -1, or with the panic of
\* chomp.
C4_EmptyPortFirstWellFormedDriver ==
    (Called /\ ret.port = <<>> /\ root = "dir") =>
        /\ NoAddressRead
        /\ ret.out.err.kind # "DriverMismatch"
        /\ \A i \in Listed : FirstDriver(i) =>
                LET bad == {j \in 1..i : Broken(j)}
                IN  IF bad = {} THEN Succeeds(ID(i))
                    ELSE FailsAt(CHOOSE j \in bad : \A k \in bad : j <= k)
        /\ (\A i \in Listed : ~(Cand(i) /\ DrvIs(i, ret.driver))) =>
                LET bad == {j \in Listed : Broken(j)}
                IN  IF bad = {}
                    THEN /\ ~ret.out.panic
                         /\ ret.out.id = -1
                         /\ ret.out.err = [kind |-> "notFoundDriver",
                                           driver |-> ret.driver]
                    ELSE FailsAt(CHOOSE j \in bad : \A k \in bad : j <= k)

\* a candidate with another driver is skipped and the second one returned,
\* though the first is on a port and the second has no address file at all
C4_Witness ==
    /\ Called /\ ret.port = <<>> /\ root = "dir"
    /\ Len(devices) >= 2
    /\ Cand(1) /\ HasID(1) /\ Filled(devices[1].driver_name)
    /\ ~DrvIs(1, ret.driver)
    /\ Cand(2) /\ HasID(2) /\ DrvIs(2, ret.driver)
    /\ ~devices[2].address.exists
    /\ Succeeds(ID(2))

\* C5: every id returned with a nil error or a DriverMismatch is >= 0, and a
\* candidate the scan comes to whose suffix is not a non-negative integer
\* ends the call with the parse error and id -1. The second half is stated
\* of the candidates whose two files are readable and not zero-length, a
\* part of what the claim covers.
C5_IdsNonNegative ==
    Called =>
        /\ (~ret.out.panic /\ ret.out.err.kind \in {"nil", "DriverMismatch"})
                => ret.out.id >= 0
        /\ \A i \in Listed :
                ( /\ root = "dir" /\ Reached(i) /\ Cand(i) /\ ~NonNegSuffix(i)
                  /\ Filled(devices[i].address)
                  /\ Filled(devices[i].driver_name) ) =>
                    /\ ~ret.out.panic
                    /\ ret.out.id = -1
                    /\ ret.out.err.kind = "parse"

\* the scan comes to candidate i and a read of its files fails
ReadFailsAt(i) ==
    /\ Reached(i) /\ Cand(i) /\ HasID(i)
    /\ \/ ~KeyFile(i).exists
       \/ /\ ret.port # <<>>
          /\ AddrIs(i, ret.port)
          /\ ~devices[i].driver_name.exists

\* C8: a failure to open or list the root, and a failed read of an attribute
\* file the scan comes to, make deviceIDFor return id -1 and an error that
\* is not nil and not a DriverMismatch, and no file of a subdirectory listed
\* later is read.
C8_ReadFailureAborts ==
    Called =>
        /\ root # "dir" =>
                /\ ret.out = Return(-1, [kind |-> IF root = "missing" THEN "open"
                                                  ELSE "readdir"], <<>>)
        /\ \A i \in Listed : ReadFailsAt(i) =>
                /\ ~ret.out.panic
                /\ ret.out.id = -1
                /\ ret.out.err.kind \in {"readAddress", "readDriverName"}
                /\ \A k \in 1..Len(ret.out.reads) : ret.out.reads[k][1] <= i

\* the first candidate's driver_name cannot be read though it is on the port
\* asked for, and the second candidate, which matches, is not returned
C8_Witness ==
    /\ Called /\ ret.port # <<>> /\ root = "dir"
    /\ Len(devices) >= 2
    /\ ReadFailsAt(1) /\ AddrIs(1, ret.port)
    /\ Cand(2) /\ HasID(2) /\ AddrIs(2, ret.port) /\ DrvIs(2, ret.driver)
    /\ ret.out.id = -1
    /\ ret.out.err.kind = "readDriverName"

\* ------------------------------------------------- the other claims

\* C9: the value AddressOf and DriverFor give for a readable file is its
\* content with exactly one trailing newline removed, for every content, a
\* zero-length one too, and neither crashes.
C9_ValueIsContentChomped ==
    (got.op \in {"AddressOf", "DriverFor"} /\ attr.exists) =>
        /\ ~got.out.panic
        /\ got.out.err = "nil"
        /\ got.out.val = AttrValue(attr)

\* the flags of the MotorState f, in the order of their values
FlagValues == <<Running, Ramping, Holding, Overloaded, Stalled>>
FlagSet(f, v) == (f \div v) % 2 = 1

RECURSIVE NamesOf(_, _)
\* the names of the flags set in f, from the i-th flag on
NamesOf(f, i) ==
    IF i > Len(FlagValues) THEN <<>>
    ELSE (IF FlagSet(f, FlagValues[i]) THEN <<motorStates[i]>> ELSE <<>>)
            \o NamesOf(f, i + 1)

RECURSIVE Joined(_)
\* names joined by single "|" separators
Joined(names) ==
    IF names = <<>> THEN <<>>
    ELSE IF Len(names) = 1 THEN names[1]
    ELSE names[1] \o <<"|">> \o Joined(Tail(names))

\* C10: for every flag set f over the five flags, f.String() is the names of
\* the flags set in f, in their fixed order, joined by single "|" separators,
\* with none before the first name or after the last.
C10_StringJoinsFlagNames ==
    (str.op = "String"
        /\ flags <= Running + Ramping + Holding + Overloaded + Stalled) =>
        str.out = Joined(NamesOf(flags, 1))

\* Go's integer division, which truncates toward zero
Quo(a, b) == IF a >= 0 THEN a \div b ELSE 0 - ((0 - a) \div b)

\* the stride NewRGBAWith works with
Effective(stride, r) == IF stride = 0 THEN 4 * (r.Max.X - r.Min.X) ELSE stride

\* C6: NewRGBAWith returns an error and a nil image whenever len(pix) < s*h,
\* s being 4*width for a zero stride and the stride given otherwise, and a
\* non-nil image with a nil error whenever len(pix) >= s*h.
C6_ErrorIffBufferShort ==
    img.op = "NewRGBAWith" =>
        LET h == img.r.Max.Y - img.r.Min.Y
            s == Effective(img.stride, img.r)
        IN  /\ img.pix < s * h => (img.out.err /\ img.out.nil)
            /\ img.pix >= s * h => (~img.out.err /\ ~img.out.nil)

\* a buffer one byte short of a whole frame of the default stride is refused
C6_Witness ==
    /\ img.op = "NewRGBAWith"
    /\ img.stride = 0
    /\ img.r.Max.X > img.r.Min.X
    /\ img.r.Max.Y > img.r.Min.Y
    /\ img.pix = 4 * (img.r.Max.X - img.r.Min.X) * (img.r.Max.Y - img.r.Min.Y) - 1
    /\ img.out.err /\ img.out.nil

\* C7: every pixel surface NewRGBAWith constructs has stride*height <=
\* len(buffer) and width <= stride/4, for a stride the caller gives as for
\* the default. Stated here of the surfaces that have pixels and a positive
\* stride, a part of what the claim covers.
C7_SurfaceKeepsInvariant ==
    (img.op = "NewRGBAWith" /\ ~img.out.err
        /\ Dx(img.out.Rect) > 0 /\ Dy(img.out.Rect) > 0 /\ img.out.Stride > 0) =>
        /\ img.out.Stride * Dy(img.out.Rect) <= img.out.Pix
        /\ Dx(img.out.Rect) <= Quo(img.out.Stride, 4)

====
